---------------------------- MODULE Spec2Model ----------------------------
(***************************************************************************)
(* Model of qiskit_metal/renderers/renderer_ansys/ansys_renderer.py:       *)
(*   - good_fillet_idxs, the fillet-eligibility filter;                    *)
(*   - get_clean_name, the element-name sanitiser;                         *)
(*   - the public methods of QAnsysRenderer, as transformers of the        *)
(*     renderer object (modeler, chip_subtract_dict, assign_perfE), with   *)
(*     the calls each makes on the Ansys modeler and the exception it      *)
(*     ends with, if any.                                                  *)
(*                                                                         *)
(* Lengths are integers (one length unit).  A Python str is a sequence of  *)
(* one-character strings, a Python list a sequence, a Python set a set.    *)
(* Python indices are kept 0-based inside index lists.                     *)
(***************************************************************************)
EXTENDS Integers, Sequences, FiniteSets

VARIABLES
    \* ---- one call of good_fillet_idxs ----
    coords,         \* argument coords: list of (x, y) vertices
    fradius,        \* argument fradius
    precision,      \* argument precision: digits kept by round()
    isclosed,       \* argument isclosed
    idxs,           \* value returned by good_fillet_idxs
    fillet_called,  \* TRUE once good_fillet_idxs has returned
    \* ---- one call of get_clean_name ----
    name_in,        \* argument name
    name_out,       \* value returned by get_clean_name
    name_called,    \* TRUE once get_clean_name has returned
    \* ---- the renderer ----
    table,          \* design.qgeometry: the rows of all element tables
    renderer,       \* the QAnsysRenderer object, see NewRenderer
    last_call,      \* the public method of the renderer called last
    selection,      \* argument of the most recent render_design call
    stale,          \* whether the accumulators held entries when the most
                    \* recent render_design call began
    direct          \* number of calls, since the most recent render_design,
                    \* of the methods that add to the accumulators

vars == <<coords, fradius, precision, isclosed, idxs,
          fillet_called, name_in, name_out, name_called,
          table, renderer, last_call, selection, stale, direct>>

fillet_vars == <<coords, fradius, precision, isclosed, idxs,
                 fillet_called>>
name_vars   == <<name_in, name_out, name_called>>
render_vars == <<table, renderer, last_call, selection, stale, direct>>

-----------------------------------------------------------------------------
(* Bounds of the model. *)
MaxLen       == 5   \* longest vertex list
MaxRadius    == 2   \* largest fillet radius
MaxPrecision == 1   \* largest number of digits given to round()
MaxNameLen   == 3   \* longest raw element name given to get_clean_name
MaxDirect    == 1   \* most direct calls of render_tables, render_components,
                    \* render_element*, render_chips between two render_design

-----------------------------------------------------------------------------
(* Generic helpers. *)
Range(s) == {s[i] : i \in 1..Len(s)}

RECURSIVE SeqsUpTo(_, _)
SeqsUpTo(S, n) ==
    IF n = 0 THEN {<<>>}
    ELSE LET shorter == SeqsUpTo(S, n - 1)
         IN  shorter \cup {Append(s, x) : s \in {t \in shorter : Len(t) = n - 1}, x \in S}

RECURSIVE Pow10(_)
Pow10(p) == IF p = 0 THEN 1 ELSE 10 * Pow10(p - 1)

RECURSIVE Isqrt(_)
\* floor of the square root
Isqrt(n) ==
    IF n < 2 THEN n
    ELSE LET s == 2 * Isqrt(n \div 4)
         IN  IF (s + 1) * (s + 1) <= n THEN s + 1 ELSE s

\* Python s[1:-1]
Slice1m1(s) == IF Len(s) < 2 THEN <<>> ELSE SubSeq(s, 2, Len(s) - 1)

-----------------------------------------------------------------------------
(* The fillet-eligibility filter. *)

\* Vertices the vertex lists are drawn from.  Edge lengths between them:
\* 0 (a repeated vertex), 1, 5, sqrt(32).
Vertices == {<<0, 0>>, <<1, 0>>, <<4, 4>>}

\* Squared Euclidean length of the edge a-b.
Dist2(a, b) == (a[1] - b[1]) * (a[1] - b[1]) + (a[2] - b[2]) * (a[2] - b[2])

\* round(norm(a - b), precision), in units of 10^-precision: the integer k
\* nearest to sqrt(Dist2) * 10^precision (the square root of an integer is
\* never half-way between two integers, so no tie arises).
get_dist(a, b, prec) ==
    LET n == Dist2(a, b) * Pow10(prec) * Pow10(prec)
        s == Isqrt(n)
    IN  IF n - s * s > s THEN s + 1 ELSE s

\* Neighbours (0-based indices) of vertex i in a list of n vertices.
Neighbours(i, n, closed) ==
    IF closed THEN {(i + n - 1) % n, (i + 1) % n}
    ELSE {j \in {i - 1, i + 1} : 0 <= j /\ j <= n - 1}

\* The vertices that have two adjacent edges, the candidates for rounding:
\* every vertex of a closed shape, the interior vertices of an open one.
HasTwoEdges(i, n, closed) == closed \/ (1 <= i /\ i <= n - 2)

\* The length the edge from vertex i to its neighbour j has to have: the
\* radius of the arc at i, and the radius of the arc at j when j is rounded
\* too.
Room(j, n, r, closed) == IF HasTwoEdges(j, n, closed) THEN 2 * r ELSE r

\* The proximity test on one edge: its length, rounded to `prec` digits, is
\* not long enough.
TooClose(a, b, room, prec) == get_dist(a, b, prec) < room * Pow10(prec)

\* Ascending list of the members of a set of integers.
RECURSIVE SortedList(_)
SortedList(S) ==
    IF S = {} THEN <<>>
    ELSE LET m == CHOOSE x \in S : \A y \in S : x <= y
         IN  <<m>> \o SortedList(S \ {m})

\* toolbox_python.utility_functions.bad_fillet_idxs: the indices of the
\* vertices one of whose two adjacent edges is not long enough, ascending.
bad_fillet_idxs(cs, r, prec, closed) ==
    LET n == Len(cs)
    IN  SortedList({i \in {k \in 0..(n - 1) : HasTwoEdges(k, n, closed)} :
            \E j \in Neighbours(i, n, closed) :
                TooClose(cs[i + 1], cs[j + 1], Room(j, n, r, closed), prec)})

\* toolbox_python.utility_functions.toggle_numbers: the members of
\* [0, 1, ..., totlength-1] not in `numbers`, ascending.
toggle_numbers(numbers, totlength) ==
    SortedList((0..(totlength - 1)) \ Range(numbers))

\* Mutant: the open branch forgets the [1:-1] slice.
good_fillet_idxs_noslice(cs, r, prec, closed) ==
    toggle_numbers(bad_fillet_idxs(cs, r, prec, closed), Len(cs))

\* Mutant: the closed branch slices like the open one.
good_fillet_idxs_sliceall(cs, r, prec, closed) ==
    Slice1m1(toggle_numbers(bad_fillet_idxs(cs, r, prec, closed), Len(cs)))

\* Mutant: the bad list is returned without being inverted.
good_fillet_idxs_noinvert(cs, r, prec, closed) ==
    IF closed THEN bad_fillet_idxs(cs, r, prec, TRUE)
    ELSE bad_fillet_idxs(cs, r, prec, FALSE)

\* Mutant: the open branch drops the first entry only ([1:]).
good_fillet_idxs_tailonly(cs, r, prec, closed) ==
    LET good == toggle_numbers(bad_fillet_idxs(cs, r, prec, closed), Len(cs))
    IN  IF closed \/ good = <<>> THEN good ELSE Tail(good)

\* Lines 55-57 on the list bad_fillet_idxs returned.
good_fillet_idxs_given(badlist, length, closed) ==
    IF closed
    THEN toggle_numbers(badlist, length)
    ELSE Slice1m1(toggle_numbers(badlist, length))

good_fillet_idxs(cs, r, prec, closed) ==
    good_fillet_idxs_given(bad_fillet_idxs(cs, r, prec, closed), Len(cs), closed)

-----------------------------------------------------------------------------
(* The name sanitiser. *)
Letters  == {"a", "Z"}
Digits   == {"7"}
Chars    == Letters \cup Digits \cup {"_", "-"}

\* re.sub(pattern, '', s) for a character-class pattern: drop the matches.
RECURSIVE Filter(_, _)
Filter(s, keep) ==
    IF s = <<>> THEN <<>>
    ELSE (IF Head(s) \in keep THEN <<Head(s)>> ELSE <<>>) \o Filter(Tail(s), keep)

\* re.sub('^[^a-zA-Z_]+', '', s): drop the longest prefix outside the class.
RECURSIVE StripLeading(_, _)
StripLeading(s, ok) ==
    IF s = <<>> \/ Head(s) \in ok THEN s ELSE StripLeading(Tail(s), ok)

get_clean_name(name) ==
    LET kept == Filter(name, Letters \cup Digits \cup {"_"})
    IN  StripLeading(kept, Letters \cup {"_"})

\* A valid variable name: a letter or underscore, then letters, digits, underscores.
IsValidName(s) ==
    /\ Len(s) >= 1
    /\ s[1] \in Letters \cup {"_"}
    /\ \A i \in 1..Len(s) : s[i] \in Letters \cup Digits \cup {"_"}

-----------------------------------------------------------------------------
(* The design read by the renderer. *)

\* Chip names, as Python strings.
Main == <<"m", "a", "i", "n">>
Top  == <<"t", "o", "p">>
Chips == {Main, Top}

\* Component ids of the design.
Components == {1, 2}

\* str(component)
Str(c) == IF c = 1 THEN <<"1">> ELSE <<"2">>

\* design.qgeometry.get_element_types(): the tables, in iteration order.
element_types == <<"path", "poly", "junction">>

\* The elements a design is made of: what a row of a table fixes apart from
\* its chip and its subtract and helper flags.  `points` is geometry.coords
\* of a LineString and geometry.exterior.coords (a ring: the first vertex
\* repeated at the end) of a Polygon.  The two vertices of the last
\* junction coincide.
Elements == <<
    [component |-> 1, table |-> "path", name |-> <<"a", "_", "7">>,
     geometry |-> "LineString", points |-> <<<<0, 0>>, <<6, 3>>, <<2, 3>>>>,
     fillet |-> 1, width |-> 1, is_rectangle |-> FALSE, interiors |-> 0],
    [component |-> 1, table |-> "path", name |-> <<"a", "a">>,
     geometry |-> "LineString", points |-> <<<<0, 0>>, <<1, 0>>, <<2, 3>>>>,
     fillet |-> 2, width |-> 0, is_rectangle |-> FALSE, interiors |-> 0],
    [component |-> 2, table |-> "poly", name |-> <<"Z", "-", "7">>,
     geometry |-> "Polygon",
     points |-> <<<<0, 0>>, <<6, 3>>, <<2, 3>>, <<0, 0>>>>,
     fillet |-> 1, width |-> 0, is_rectangle |-> FALSE, interiors |-> 1],
    [component |-> 2, table |-> "poly", name |-> <<"Z", "7">>,
     geometry |-> "Polygon",
     points |-> <<<<0, 0>>, <<6, 0>>, <<6, 3>>, <<0, 3>>, <<0, 0>>>>,
     fillet |-> 1, width |-> 0, is_rectangle |-> TRUE, interiors |-> 0],
    [component |-> 1, table |-> "junction", name |-> <<"7", "a">>,
     geometry |-> "LineString", points |-> <<<<0, 0>>, <<1, 0>>>>,
     fillet |-> 0, width |-> 1, is_rectangle |-> FALSE, interiors |-> 0],
    [component |-> 1, table |-> "junction", name |-> <<"7", "a">>,
     geometry |-> "LineString", points |-> <<<<2, 3>>, <<2, 3>>>>,
     fillet |-> 0, width |-> 1, is_rectangle |-> FALSE, interiors |-> 0] >>

\* A row of a QGeometry table.
Row(elt, chip, subtract, helper) ==
    [component |-> elt.component, table |-> elt.table, name |-> elt.name,
     geometry |-> elt.geometry, points |-> elt.points, fillet |-> elt.fillet,
     width |-> elt.width, is_rectangle |-> elt.is_rectangle,
     interiors |-> elt.interiors,
     chip |-> chip, subtract |-> subtract, helper |-> helper]

\* The rows a design can hold: first a path, then a polygon, then a junction.
RowChoices == <<
    {Row(Elements[1], Main, TRUE, FALSE), Row(Elements[1], Top, FALSE, FALSE),
     Row(Elements[1], Main, FALSE, TRUE), Row(Elements[2], Top, TRUE, FALSE)},
    {Row(Elements[3], Main, TRUE, FALSE), Row(Elements[4], Top, FALSE, FALSE),
     Row(Elements[4], Main, FALSE, TRUE)},
    {Row(Elements[5], Top, FALSE, FALSE), Row(Elements[6], Main, TRUE, FALSE)} >>

\* The designs of n rows, as the concatenation of their tables.
Tables(n) == {t \in [1..n -> UNION Range(RowChoices)] :
                 \A i \in 1..n : t[i] \in RowChoices[i]}

\* The selections given to render_design, render_tables, render_components.
Selections == SUBSET Components

-----------------------------------------------------------------------------
(* The renderer. *)

\* The renderer after __init__: self.modeler is bound by open_ansys_design
\* only, self.chip_subtract_dict and self.assign_perfE by render_design only.
\*   calls    the calls the method called last made on self.modeler
\*   raised   the exception that method ended with ("" when it returned)
\*   rendered the rows rendered to the end since the accumulators were reset
NewRenderer ==
    [modeler_bound |-> FALSE, has_accumulators |-> FALSE,
     chip_subtract_dict |-> <<>>, assign_perfE |-> <<>>,
     calls |-> <<>>, raised |-> "", rendered |-> {}]

Ok(self) == self.raised = ""
Raise(self, exc) == IF Ok(self) THEN [self EXCEPT !.raised = exc] ELSE self

\* The renderer as a public method finds it.
Enter(self) == [self EXCEPT !.calls = <<>>, !.raised = ""]

DELIM == <<"_">>

\* name = f'{qc_name}{QAnsysRenderer.NAME_DELIM}{qc_elt}'
ElementName(qgeom) ==
    <<"Q">> \o Str(qgeom.component) \o DELIM \o get_clean_name(qgeom.name)

\* f'{chip_name}_plane'
PlaneName(chip) == chip \o <<"_", "p", "l", "a", "n", "e">>

\* An object the modeler names itself.
Unnamed == <<>>

\* One call on self.modeler: the method, the object drawn, renamed or cut,
\* the tool shapes of a subtract, the list given to assign_perfect_E.
Call(op, obj, shapes, names) ==
    [op |-> op, obj |-> obj, shapes |-> shapes, names |-> names]

\* self.modeler.<method>(...): AttributeError while self.modeler is unbound.
Do(self, call) ==
    IF ~Ok(self) THEN self
    ELSE IF ~self.modeler_bound THEN Raise(self, "AttributeError")
    ELSE [self EXCEPT !.calls = Append(@, call)]

\* self.assign_perfE.append(name)
AppendPerfE(self, name) ==
    IF ~Ok(self) THEN self
    ELSE IF ~self.has_accumulators THEN Raise(self, "AttributeError")
    ELSE [self EXCEPT !.assign_perfE = Append(@, name)]

\* chip_subtract_dict is an insertion-ordered dict: a list of (key, value).
DictHas(d, k) == \E i \in 1..Len(d) : d[i].chip = k
DictGet(d, k) == d[CHOOSE i \in 1..Len(d) : d[i].chip = k].shapes
DictKeys(d) == [i \in 1..Len(d) |-> d[i].chip]
DictSet(d, k, v) ==
    IF DictHas(d, k)
    THEN [i \in 1..Len(d) |-> IF d[i].chip = k THEN [chip |-> k, shapes |-> v] ELSE d[i]]
    ELSE Append(d, [chip |-> k, shapes |-> v])

\* Lines 271-275 and 325-328: record the chip, and the name if subtracted.
record_chip(self, qgeom, name) ==
    IF ~Ok(self) THEN self
    ELSE IF ~self.has_accumulators THEN Raise(self, "AttributeError")
    ELSE LET d0 == self.chip_subtract_dict
             d1 == IF DictHas(d0, qgeom.chip) THEN d0 ELSE DictSet(d0, qgeom.chip, {})
             d2 == IF qgeom.subtract
                   THEN DictSet(d1, qgeom.chip, DictGet(d1, qgeom.chip) \cup {name})
                   ELSE d1
         IN  [self EXCEPT !.chip_subtract_dict = d2]

\* Lines 255-262 and 307-314: fillet the vertices good_fillet_idxs allows.
\* poly_ansys is the object handed to _fillet, under the name its handle
\* carries.
fillet_element(self, qgeom, poly_ansys, closed) ==
    IF qgeom.fillet > 0
       /\ good_fillet_idxs(qgeom.points, qgeom.fillet, precision, closed) # <<>>
    THEN Do(self, Call("_fillet", poly_ansys, {}, <<>>))
    ELSE self

RECURSIVE subtract_interiors(_, _, _)
subtract_interiors(self, name, k) ==
    IF k = 0 THEN self
    ELSE subtract_interiors(
             Do(Do(self, Call("draw_polyline", Unnamed, {}, <<>>)),
                Call("subtract", name, {Unnamed}, <<>>)),
             name, k - 1)

\* The method returned: the row counts as rendered.
Rendered(self, qgeom) ==
    IF Ok(self) THEN [self EXCEPT !.rendered = @ \cup {qgeom}] ELSE self

render_element_poly(self, qgeom) ==
    IF ~Ok(self) THEN self
    ELSE IF qgeom.geometry # "Polygon"
    THEN Raise(self, "AttributeError")      \* line 239: no .exterior
    ELSE
    LET name == ElementName(qgeom)
        s1 == IF qgeom.is_rectangle
              THEN Do(Do(self, Call("draw_rect_corner", Unnamed, {}, <<>>)),
                      Call("rename_obj", name, {}, <<>>))
              ELSE Do(Do(self, Call("draw_polyline", Unnamed, {}, <<>>)),
                      Call("rename", name, {}, <<>>))
        \* Line 247 drops what rename_obj returns: the handle of a rectangle
        \* is the one draw_rect_corner returned.  Line 253 rebinds it.
        poly_ansys == IF qgeom.is_rectangle THEN Unnamed ELSE name
        s2 == fillet_element(s1, qgeom, poly_ansys, TRUE)
        s3 == subtract_interiors(s2, name, qgeom.interiors)
        s4 == record_chip(s3, qgeom, name)
    IN  Rendered(IF ~qgeom.subtract /\ ~qgeom.helper
                 THEN AppendPerfE(s4, name)
                 ELSE s4, qgeom)

\* Lines 316-323: sweep the width along the path.  vlen is the length of the
\* first edge; qc_width / (2 * vlen) raises when the edge has length zero.
sweep_along_path(self, qgeom, name) ==
    IF ~Ok(self) \/ qgeom.width = 0 THEN self
    ELSE IF Dist2(qgeom.points[1], qgeom.points[2]) = 0
    THEN Raise(self, "ZeroDivisionError")
    ELSE Do(Do(self, Call("draw_polyline", Unnamed, {}, <<>>)),
            Call("_sweep_along_path", name, {Unnamed}, <<>>))

render_element_path(self, qgeom) ==
    IF ~Ok(self) THEN self
    ELSE IF qgeom.geometry # "LineString"
    THEN Raise(self, "NotImplementedError") \* line 301: a Polygon has no .coords
    ELSE
    LET name == ElementName(qgeom)
        s1 == Do(Do(self, Call("draw_polyline", Unnamed, {}, <<>>)),
                 Call("rename", name, {}, <<>>))
        s2 == fillet_element(s1, qgeom, name, FALSE)
        s3 == sweep_along_path(s2, qgeom, name)
        s4 == record_chip(s3, qgeom, name)
    IN  Rendered(IF qgeom.width # 0 /\ ~qgeom.subtract /\ ~qgeom.helper
                 THEN AppendPerfE(s4, name)
                 ELSE s4, qgeom)

render_element(self, qgeom) ==
    IF qgeom.geometry = "Polygon" THEN render_element_poly(self, qgeom)
    ELSE IF qgeom.geometry = "LineString" THEN render_element_path(self, qgeom)
    ELSE self

\* QRenderer.get_unique_component_ids: the ids of the selected components,
\* and case 1 when the selection names every component of the design.
get_unique_component_ids(sel) ==
    IF sel = Components THEN <<{}, 1>> ELSE <<sel, 0>>

\* The rows render_components iterates over.
masked_rows(rows, sel) ==
    IF sel # {} /\ get_unique_component_ids(sel)[2] # 1
    THEN SelectSeq(rows, LAMBDA r : r.component \in get_unique_component_ids(sel)[1])
    ELSE rows

RECURSIVE render_rows(_, _)
render_rows(self, rows) ==
    IF rows = <<>> \/ ~Ok(self) THEN self
    ELSE render_rows(render_element(self, Head(rows)), Tail(rows))

render_components(self, table_type, sel) ==
    render_rows(self,
        masked_rows(SelectSeq(table, LAMBDA r : r.table = table_type), sel))

RECURSIVE render_tables_from(_, _, _)
render_tables_from(self, types, sel) ==
    IF types = <<>> \/ ~Ok(self) THEN self
    ELSE render_tables_from(render_components(self, Head(types), sel),
                            Tail(types), sel)

render_tables(self, sel) == render_tables_from(self, element_types, sel)

render_chip(self, chip_name) ==
    LET s1 == IF chip_name = Main
              THEN Do(self, Call("draw_box_center",
                                 <<"s", "a", "m", "p", "l", "e", "_",
                                   "h", "o", "l", "d", "e", "r">>, {}, <<>>))
              ELSE self
        s2 == Do(s1, Call("draw_rect_center", PlaneName(chip_name), {}, <<>>))
        s3 == IF DictGet(self.chip_subtract_dict, chip_name) # {}
              THEN AppendPerfE(s2, PlaneName(chip_name))
              ELSE s2
    IN  Do(s3, Call("draw_box_center", chip_name, {}, <<>>))

RECURSIVE render_chips_from(_, _)
render_chips_from(self, chip_names) ==
    IF chip_names = <<>> \/ ~Ok(self) THEN self
    ELSE render_chips_from(render_chip(self, Head(chip_names)), Tail(chip_names))

render_chips(self) ==
    IF ~Ok(self) THEN self
    ELSE IF ~self.has_accumulators THEN Raise(self, "AttributeError")
    ELSE render_chips_from(self, DictKeys(self.chip_subtract_dict))

RECURSIVE subtract_from_ground_from(_, _)
subtract_from_ground_from(self, items) ==
    IF items = <<>> \/ ~Ok(self) THEN self
    ELSE subtract_from_ground_from(
             IF Head(items).shapes # {}
             THEN Do(self, Call("subtract", PlaneName(Head(items).chip),
                                Head(items).shapes, <<>>))
             ELSE self,
             Tail(items))

\* Mutant: the `if shapes` guard is missing.
RECURSIVE subtract_from_ground_unguarded_from(_, _)
subtract_from_ground_unguarded_from(self, items) ==
    IF items = <<>> \/ ~Ok(self) THEN self
    ELSE subtract_from_ground_unguarded_from(
             Do(self, Call("subtract", PlaneName(Head(items).chip),
                           Head(items).shapes, <<>>)),
             Tail(items))

subtract_from_ground_unguarded(self) ==
    IF ~Ok(self) THEN self
    ELSE IF ~self.has_accumulators THEN Raise(self, "AttributeError")
    ELSE subtract_from_ground_unguarded_from(self, self.chip_subtract_dict)

subtract_from_ground(self) ==
    IF ~Ok(self) THEN self
    ELSE IF ~self.has_accumulators THEN Raise(self, "AttributeError")
    ELSE subtract_from_ground_from(self, self.chip_subtract_dict)

metallize(self) ==
    IF ~Ok(self) THEN self
    ELSE IF ~self.modeler_bound \/ ~self.has_accumulators
    THEN Raise(self, "AttributeError")
    ELSE Do(self, Call("assign_perfect_E", Unnamed, {}, self.assign_perfE))

\* Lines 168-169: both accumulators are bound to new, empty containers.
reset_accumulators(self) ==
    [self EXCEPT !.has_accumulators = TRUE, !.chip_subtract_dict = <<>>,
                 !.assign_perfE = <<>>, !.rendered = {}]

\* Mutant: the two accumulators are not reset at the start of the pass.
render_design_noreset(self, sel) ==
    metallize(subtract_from_ground(render_chips(render_tables(
        [self EXCEPT !.has_accumulators = TRUE], sel))))

\* Mutant: the ground is cut before the chips are drawn.
render_design_cut_first(self, sel) ==
    metallize(render_chips(subtract_from_ground(render_tables(
        reset_accumulators(self), sel))))

render_design(self, sel) ==
    metallize(subtract_from_ground(render_chips(render_tables(
        reset_accumulators(self), sel))))

\* Lines 143-144: a new project is opened and its modeler bound.
open_ansys_design(self) == [self EXCEPT !.modeler_bound = TRUE]

-----------------------------------------------------------------------------
(* States of the parts a specification does not exercise. *)
FilletIdle ==
    /\ coords = <<>> /\ fradius = 0 /\ precision = 0 /\ isclosed = FALSE
    /\ idxs = <<>> /\ fillet_called = FALSE

NameIdle == name_in = <<>> /\ name_out = <<>> /\ name_called = FALSE

-----------------------------------------------------------------------------
(* Specification of one call of good_fillet_idxs on arbitrary arguments. *)
InitFillet ==
    /\ coords \in SeqsUpTo(Vertices, MaxLen)
    /\ fradius \in 0..MaxRadius
    /\ precision \in 0..MaxPrecision
    /\ isclosed \in BOOLEAN
    /\ idxs = <<>>
    /\ fillet_called = FALSE

CallGoodFilletIdxs ==
    /\ ~fillet_called
    /\ idxs' = good_fillet_idxs(coords, fradius, precision, isclosed)
    /\ fillet_called' = TRUE
    /\ UNCHANGED <<coords, fradius, precision, isclosed>>

(* Specification of one call of get_clean_name on an arbitrary string. *)
InitName ==
    /\ name_in \in SeqsUpTo(Chars, MaxNameLen)
    /\ name_out = <<>>
    /\ name_called = FALSE

CallGetCleanName ==
    /\ ~name_called
    /\ name_out' = get_clean_name(name_in)
    /\ name_called' = TRUE
    /\ UNCHANGED name_in

-----------------------------------------------------------------------------
(* Properties of good_fillet_idxs. *)
NumVertices == Len(coords)
Bad == Range(bad_fillet_idxs(coords, fradius, precision, isclosed))
Good == Range(idxs)
Interior == 1..(NumVertices - 2)
Candidates == IF isclosed THEN 0..(NumVertices - 1) ELSE Interior

\* The result of lines 55-57 for an open shape, were bad_fillet_idxs to
\* return the indices `bad`.
OpenGoodGiven(bad) ==
    Range(good_fillet_idxs_given(SortedList(bad), NumVertices, FALSE))

\* C1: for an open shape the result never holds index 0 or index
\* len(coords)-1, whatever the vertices and the radius; and lines 55-57
\* return neither of them for any bad set, one that holds 0 or len(coords)-1
\* included.
C1_EndsNeverReturned ==
    (fillet_called /\ ~isclosed) =>
        /\ 0 \notin Good
        /\ (NumVertices - 1) \notin Good
        /\ \A bad \in SUBSET (0..(NumVertices - 1)) :
              /\ 0 \notin OpenGoodGiven(bad)
              /\ (NumVertices - 1) \notin OpenGoodGiven(bad)

\* An open polyline with a vertex reported bad and a vertex returned.
C1_Witness ==
    /\ fillet_called /\ ~isclosed
    /\ Bad # {}
    /\ Good # {}

\* C2: for a closed shape the result is exactly the complement of the bad
\* indices within 0..len(coords)-1.
C2_ClosedIsComplement ==
    (fillet_called /\ isclosed) =>
        /\ Good \subseteq 0..(NumVertices - 1)
        /\ \A i \in 0..(NumVertices - 1) : (i \in Good) # (i \in Bad)
        /\ Len(idxs) = Cardinality(Good)

\* A closed polygon with some bad and some good vertices.
C2_Witness ==
    /\ fillet_called /\ isclosed
    /\ Bad # {} /\ Good # {}

\* The radius is very large at vertex i: it exceeds the whole length of an
\* edge adjacent to i, not only half of it, by a length unit or more (more
\* than rounding a length to any number of digits changes it by).
VeryLargeRadius(i) ==
    /\ fradius >= 1
    /\ \E j \in Neighbours(i, NumVertices, isclosed) :
          Dist2(coords[i + 1], coords[j + 1]) <= (fradius - 1) * (fradius - 1)

-----------------------------------------------------------------------------
(* Properties of get_clean_name. *)

\* C7: for every input string get_clean_name returns a valid variable name.
C7_ReturnsValidName == name_called => IsValidName(name_out)


-----------------------------------------------------------------------------
(* Specification of a renderer on a design: its public methods, called in   *)
(* any order.                                                               *)
RenderIdle ==
    /\ table = <<>> /\ renderer = NewRenderer /\ last_call = "__init__"
    /\ selection = {} /\ stale = FALSE /\ direct = 0

InitRender ==
    /\ table \in UNION {Tables(n) : n \in 0..Len(RowChoices)}
    /\ renderer = NewRenderer /\ last_call = "__init__"
    /\ selection = {} /\ stale = FALSE /\ direct = 0

\* design._template_options.PRECISION and the rest of the filter's state.
InitRenderFillet ==
    /\ coords = <<>> /\ fradius = 0 /\ precision = MaxPrecision
    /\ isclosed = FALSE /\ idxs = <<>>
    /\ fillet_called = FALSE

\* A call that leaves the design and the record of the last pass alone.
Called(method, after) ==
    /\ renderer' = after
    /\ last_call' = method
    /\ UNCHANGED <<table, selection, stale, fillet_vars, name_vars>>

OpenAnsysDesign ==
    /\ Called("open_ansys_design", open_ansys_design(Enter(renderer)))
    /\ UNCHANGED direct

RenderDesign ==
    /\ \E sel \in Selections :
        /\ renderer' = render_design(Enter(renderer), sel)
        /\ selection' = sel
    /\ stale' = (renderer.chip_subtract_dict # <<>> /\ renderer.assign_perfE # <<>>)
    /\ last_call' = "render_design"
    /\ direct' = 0
    /\ UNCHANGED <<table, fillet_vars, name_vars>>

\* render_tables, render_components, render_element, render_element_poly,
\* render_element_path and render_chips add to the accumulators: the direct
\* calls of them after a render_design are counted.
RenderTables ==
    /\ direct < MaxDirect
    /\ \E sel \in Selections :
          Called("render_tables", render_tables(Enter(renderer), sel))
    /\ direct' = direct + 1

RenderComponents ==
    /\ direct < MaxDirect
    /\ \E sel \in Selections, i \in 1..Len(element_types) :
          Called("render_components",
                 render_components(Enter(renderer), element_types[i], sel))
    /\ direct' = direct + 1

RenderElement ==
    /\ direct < MaxDirect
    /\ \E i \in 1..Len(table) :
          Called("render_element", render_element(Enter(renderer), table[i]))
    /\ direct' = direct + 1

RenderElementPoly ==
    /\ direct < MaxDirect
    /\ \E i \in 1..Len(table) :
          Called("render_element_poly",
                 render_element_poly(Enter(renderer), table[i]))
    /\ direct' = direct + 1

RenderElementPath ==
    /\ direct < MaxDirect
    /\ \E i \in 1..Len(table) :
          Called("render_element_path",
                 render_element_path(Enter(renderer), table[i]))
    /\ direct' = direct + 1

RenderChips ==
    /\ direct < MaxDirect
    /\ Called("render_chips", render_chips(Enter(renderer)))
    /\ direct' = direct + 1

SubtractFromGround ==
    /\ Called("subtract_from_ground", subtract_from_ground(Enter(renderer)))
    /\ UNCHANGED direct

Metallize ==
    /\ Called("metallize", metallize(Enter(renderer)))
    /\ UNCHANGED direct

NextFillet == CallGoodFilletIdxs /\ UNCHANGED <<name_vars, render_vars>>
FilletInit == InitFillet /\ NameIdle /\ RenderIdle
SpecFillet == FilletInit /\ [][NextFillet]_vars

NextName == CallGetCleanName /\ UNCHANGED <<fillet_vars, render_vars>>
NameInit == InitName /\ FilletIdle /\ RenderIdle
SpecName == NameInit /\ [][NextName]_vars

NextRender ==
    \/ OpenAnsysDesign
    \/ RenderDesign
    \/ RenderTables
    \/ RenderComponents
    \/ RenderElement
    \/ RenderElementPoly
    \/ RenderElementPath
    \/ RenderChips
    \/ SubtractFromGround
    \/ Metallize
RenderInit == InitRender /\ InitRenderFillet /\ NameIdle
SpecRender == RenderInit /\ [][NextRender]_vars
-----------------------------------------------------------------------------
(* Properties of the renderer. *)
Log == renderer.calls
Dict == renderer.chip_subtract_dict
Returned == Ok(renderer)
AfterRenderDesign == last_call = "render_design"

\* Indices of the rows of the design a render_design(sel) call selects.
SelectedBy(sel) ==
    {i \in 1..Len(table) :
        sel = {} \/ sel = Components \/ table[i].component \in sel}
Selected == {table[i] : i \in SelectedBy(selection)}

\* Names of the selected elements of a chip whose subtract flag is true.
Negative(chip) ==
    {ElementName(r) : r \in {q \in Selected : q.chip = chip /\ q.subtract}}

\* Names of the elements of a chip whose subtract flag is true, among those
\* rendered since the accumulators were reset.
RenderedNegative(chip) ==
    {ElementName(r) : r \in {q \in renderer.rendered : q.chip = chip /\ q.subtract}}

\* Indices of the selected rows whose element is to be metallized.
Metal ==
    {i \in SelectedBy(selection) :
        /\ ~table[i].subtract /\ ~table[i].helper
        /\ (table[i].geometry = "LineString" => table[i].width # 0)}

\* The names a pass over the selected rows marks metallic.
MetalNames ==
    {ElementName(table[i]) : i \in Metal}
    \cup {PlaneName(chip) : chip \in {c \in Chips : Negative(c) # {}}}

IsElementDraw(c) == c.op \in {"draw_rect_corner", "draw_polyline"}
IsChipDraw(c) == c.op \in {"draw_rect_center", "draw_box_center"}
IsPlaneSubtract(c) == c.op = "subtract" /\ \E chip \in Chips : c.obj = PlaneName(chip)
PlaneDrawnBefore(i) ==
    \E j \in 1..(i - 1) : Log[j].op = "draw_rect_center" /\ Log[j].obj = Log[i].obj
PlaneSubtracts(chip) ==
    {i \in 1..Len(Log) : Log[i].op = "subtract" /\ Log[i].obj = PlaneName(chip)}

ElementsBeforeChips ==
    \A i, j \in 1..Len(Log) :
        (IsElementDraw(Log[i]) /\ IsChipDraw(Log[j])) => i < j

\* C4 as stated: within a render_design call, element draws precede chip
\* draws, and every subtraction from a chip's plane follows the drawing of
\* that plane and is followed by no further modeler call of the pass.
C4_Original ==
    AfterRenderDesign =>
        /\ ElementsBeforeChips
        /\ \A i \in 1..Len(Log) : IsPlaneSubtract(Log[i]) =>
              /\ PlaneDrawnBefore(i)
              /\ i = Len(Log)

\* C4 amended: within a render_design call, whether it returns or raises,
\* element draws precede chip draws, and every subtraction from a chip's
\* plane follows the drawing of that plane and is followed only by
\* subtractions from other planes and by the one assign_perfect_E call that
\* ends the pass.
C4_SubtractThenMetallize ==
    AfterRenderDesign =>
        /\ ElementsBeforeChips
        /\ \A i \in 1..Len(Log) : IsPlaneSubtract(Log[i]) =>
              /\ PlaneDrawnBefore(i)
              /\ \A k \in (i + 1)..Len(Log) :
                    \/ IsPlaneSubtract(Log[k]) /\ Log[k].obj # Log[i].obj
                    \/ k = Len(Log) /\ Log[k].op = "assign_perfect_E"

\* A pass that returned, having drawn elements and chips and cut the planes
\* of two chips.
C4_Witness ==
    /\ AfterRenderDesign /\ Returned
    /\ \E i, j \in 1..Len(Log) :
          /\ i # j /\ IsPlaneSubtract(Log[i]) /\ IsPlaneSubtract(Log[j])
    /\ \E i \in 1..Len(Log) : IsElementDraw(Log[i])

\* C5: when subtract_from_ground returns, called by render_design or
\* directly, then for each chip of chip_subtract_dict there is exactly one
\* subtract call on its plane, carrying exactly the names of the chip's
\* rendered subtract elements, when there are any, and none otherwise; so no
\* name is subtracted from the plane of a chip other than its row's.  After
\* a render_design that returned, the rendered elements are the selected ones.
C5_OneSubtractPerChip ==
    /\ (last_call \in {"render_design", "subtract_from_ground"} /\ Returned) =>
          \A chip \in Chips :
              IF DictHas(Dict, chip) /\ RenderedNegative(chip) # {}
              THEN /\ Cardinality(PlaneSubtracts(chip)) = 1
                   /\ \A i \in PlaneSubtracts(chip) :
                         Log[i].shapes = RenderedNegative(chip)
              ELSE PlaneSubtracts(chip) = {}
    /\ (last_call = "subtract_from_ground" /\ Returned) =>
          \A i \in 1..Len(Log) : IsPlaneSubtract(Log[i])
    /\ (AfterRenderDesign /\ Returned) => renderer.rendered = Selected

\* subtract_from_ground returned, called directly, over two chips, one with
\* negative shapes and one without.
C5_Witness ==
    /\ last_call = "subtract_from_ground" /\ Returned
    /\ \E c1, c2 \in Chips :
          /\ DictHas(Dict, c1) /\ DictHas(Dict, c2)
          /\ RenderedNegative(c1) # {} /\ RenderedNegative(c2) = {}
          /\ PlaneSubtracts(c1) # {}

\* C6: after a render_design call, whatever was called before it,
\* chip_subtract_dict and assign_perfE hold only what that call produced:
\* entries of the rows it selected, and all of them when it returned.
C6_AccumulatorsLocalToPass ==
    AfterRenderDesign =>
        /\ Range(DictKeys(Dict)) \subseteq {r.chip : r \in Selected}
        /\ \A i \in 1..Len(Dict) : Dict[i].shapes \subseteq Negative(Dict[i].chip)
        /\ Range(renderer.assign_perfE) \subseteq MetalNames
        /\ Len(renderer.assign_perfE) = Cardinality(Range(renderer.assign_perfE))
        /\ Returned =>
              /\ Range(DictKeys(Dict)) = {r.chip : r \in Selected}
              /\ \A i \in 1..Len(Dict) : Dict[i].shapes = Negative(Dict[i].chip)
              /\ Range(renderer.assign_perfE) = MetalNames

\* A pass that found entries in both accumulators, returned, rendered some
\* elements and left out a negative element of the design.
C6_Witness ==
    /\ AfterRenderDesign /\ Returned /\ stale
    /\ \E i \in (1..Len(table)) \ SelectedBy(selection) : table[i].subtract
    /\ Selected # {}

=============================================================================
